---- MODULE Spec2Model ----
(***************************************************************************)
(* A model of convert-trace.py: the conversion of a RIGOL `.trs` file into *)
(* a nested dictionary (parse_trs, parse_key, auto_cast) and the writing   *)
(* of the configuration document and of the trace tables (convert).        *)
(*                                                                         *)
(* Text is a sequence of one-character strings, so that str.replace,       *)
(* str.rstrip, str.split and the casts are computed as the code computes   *)
(* them.  Dictionary keys are TLA+ strings (Join of the characters).       *)
(* A Python value is a tagged record:                                      *)
(*   [kind |-> "dict",  map |-> function from keys to values]              *)
(*   [kind |-> "bool",  val |-> BOOLEAN]                                   *)
(*   [kind |-> "int",   val |-> Int]                                       *)
(*   [kind |-> "float", val |-> <<num, den>>]   an exact fraction          *)
(*   [kind |-> "str",   val |-> STRING]                                    *)
(*   [kind |-> "unbound"]                       a local not yet assigned   *)
(* Floating-point rounding is not modelled: a float is the exact fraction. *)
(***************************************************************************)
EXTENDS Integers, Sequences, FiniteSets, TLC

VARIABLES
    content,    \* parse_trs: the lines of the file (content.splitlines())
    lineno,     \* parse_trs: number of lines the for loop has consumed
    output,     \* parse_trs: the dictionary under construction
    section,    \* parse_trs: name of the active section
    pc,         \* position in convert / parse_trs
    exc,        \* the exception that ended the run, "none" while running
    args,       \* convert: the flags config, trace, memory as passed in
    state,      \* convert: the local `state`
    memory,     \* convert: the local `memory` (reassigned at line 264)
    step_f,     \* convert: the local `step_f`
    files       \* the output directory: config, trace and memory artifacts

vars == <<content, lineno, output, section, pc, exc, args, state, memory,
          step_f, files>>

(***************************************************************************)
(* Bounds of the model.                                                    *)
(***************************************************************************)
MaxTok == 4      \* tokens per key in the single-key files
MaxLines == 3    \* lines per file in the multi-line files
MaxSize == 3     \* samples in the Trace section
MaxMem == 3      \* samples in the MemoryTrace section

(***************************************************************************)
(* Text helpers.                                                           *)
(***************************************************************************)
RECURSIVE Join(_)
Join(s) == IF s = <<>> THEN "" ELSE s[1] \o Join(Tail(s))

RECURSIVE Concat(_)
Concat(ss) == IF ss = <<>> THEN <<>> ELSE ss[1] \o Concat(Tail(ss))

Drop(s, n) == SubSeq(s, n + 1, Len(s))

StartsWith(s, p) == Len(p) <= Len(s) /\ SubSeq(s, 1, Len(p)) = p

EndsWith(s, p) ==
    Len(p) <= Len(s) /\ SubSeq(s, Len(s) - Len(p) + 1, Len(s)) = p

\* str.replace(pat, rep) for a non-empty pat: left to right, non-overlapping
RECURSIVE Replace(_, _, _)
Replace(s, pat, rep) ==
    IF s = <<>> THEN <<>>
    ELSE IF StartsWith(s, pat)
         THEN rep \o Replace(Drop(s, Len(pat)), pat, rep)
         ELSE <<s[1]>> \o Replace(Tail(s), pat, rep)

\* str.rstrip(c): every trailing c is removed
RECURSIVE RStrip(_, _)
RStrip(s, c) ==
    IF s # <<>> /\ s[Len(s)] = c THEN RStrip(SubSeq(s, 1, Len(s) - 1), c)
    ELSE s

Contains(s, c) == \E i \in 1..Len(s) : s[i] = c

\* index of the first c in s (s contains c)
FirstIndex(s, c) == CHOOSE i \in 1..Len(s) :
                        s[i] = c /\ \A j \in 1..(i - 1) : s[j] # c

\* str.split(c, 1) for s containing c: <<before, after>>
Split1(s, c) ==
    LET i == FirstIndex(s, c)
    IN  <<SubSeq(s, 1, i - 1), Drop(s, i)>>

(***************************************************************************)
(* Numbers: exact fractions <<num, den>> with den > 0, in lowest terms.    *)
(***************************************************************************)
Abs(n) == IF n < 0 THEN -n ELSE n

RECURSIVE Gcd(_, _)
Gcd(a, b) == IF b = 0 THEN a ELSE Gcd(b, a % b)

Frac(n, d) ==
    LET g == Gcd(Abs(n), Abs(d))
        s == IF d < 0 THEN -1 ELSE 1
    IN  <<(s * n) \div g, (s * d) \div g>>

FAdd(x, y) == Frac(x[1] * y[2] + y[1] * x[2], x[2] * y[2])
FSub(x, y) == Frac(x[1] * y[2] - y[1] * x[2], x[2] * y[2])
FMul(x, y) == Frac(x[1] * y[1], x[2] * y[2])
FDiv(x, y) == Frac(x[1] * y[2], x[2] * y[1])

(***************************************************************************)
(* Python values.                                                          *)
(***************************************************************************)
Dict(m) == [kind |-> "dict", map |-> m]
EmptyDict == Dict(<<>>)
PyBool(b) == [kind |-> "bool", val |-> b]
PyInt(n) == [kind |-> "int", val |-> n]
PyFloat(q) == [kind |-> "float", val |-> q]
PyStr(s) == [kind |-> "str", val |-> s]
Unbound == [kind |-> "unbound"]

IsDict(v) == v.kind = "dict"
Has(d, k) == k \in DOMAIN d.map
\* d[k] = v on a dict
SetItem(d, k, v) ==
    Dict([x \in (DOMAIN d.map) \cup {k} |-> IF x = k THEN v ELSE d.map[x]])

(***************************************************************************)
(* auto_cast and boolify.  int() and float() are modelled on text without  *)
(* white space, underscores, exponents and the words inf and nan: an       *)
(* optional sign, digits, and for float an optional point.                 *)
(***************************************************************************)
Digits == {"0", "1", "2", "3", "4", "5", "6", "7", "8", "9"}

DigitVal(c) ==
    CASE c = "0" -> 0 [] c = "1" -> 1 [] c = "2" -> 2 [] c = "3" -> 3
      [] c = "4" -> 4 [] c = "5" -> 5 [] c = "6" -> 6 [] c = "7" -> 7
      [] c = "8" -> 8 [] c = "9" -> 9

AllDigits(s) == \A i \in 1..Len(s) : s[i] \in Digits

RECURSIVE DigitsVal(_)
DigitsVal(s) ==
    IF s = <<>> THEN 0
    ELSE 10 * DigitsVal(SubSeq(s, 1, Len(s) - 1)) + DigitVal(s[Len(s)])

RECURSIVE Pow10(_)
Pow10(n) == IF n = 0 THEN 1 ELSE 10 * Pow10(n - 1)

Signed(s) == s # <<>> /\ s[1] \in {"+", "-"}
Unsign(s) == IF Signed(s) THEN Tail(s) ELSE s
SignOf(s) == IF s # <<>> /\ s[1] = "-" THEN -1 ELSE 1

\* boolify(value) does not raise ValueError
IsBoolText(s) ==
    s \in {<<"T", "r", "u", "e">>, <<"t", "r", "u", "e">>,
           <<"F", "a", "l", "s", "e">>, <<"f", "a", "l", "s", "e">>}

boolify(s) == s \in {<<"T", "r", "u", "e">>, <<"t", "r", "u", "e">>}

\* int(value) does not raise ValueError
IsIntText(s) == Unsign(s) # <<>> /\ AllDigits(Unsign(s))

IntOf(s) == SignOf(s) * DigitsVal(Unsign(s))

\* float(value) does not raise ValueError
IsFloatText(s) ==
    LET u == Unsign(s)
    IN  IF Contains(u, ".")
        THEN LET p == Split1(u, ".")
             IN  /\ AllDigits(p[1]) /\ AllDigits(p[2])
                 /\ Len(p[1]) + Len(p[2]) > 0
        ELSE u # <<>> /\ AllDigits(u)

FloatOf(s) ==
    LET u == Unsign(s)
        p == IF Contains(u, ".") THEN Split1(u, ".") ELSE <<u, <<>>>>
    IN  Frac(SignOf(s) * (DigitsVal(p[1]) * Pow10(Len(p[2])) + DigitsVal(p[2])),
             Pow10(Len(p[2])))

auto_cast(value) ==
    IF IsBoolText(value) THEN PyBool(boolify(value))
    ELSE IF IsIntText(value) THEN PyInt(IntOf(value))
    ELSE IF IsFloatText(value) THEN PyFloat(FloatOf(value))
    ELSE PyStr(Join(value))

(***************************************************************************)
(* parse_key.                                                              *)
(***************************************************************************)
Sep == "\\"
Tok5B == <<"%", "5", "B">>
Tok5DDot == <<"%", "5", "D", ".">>
Tok5D == <<"%", "5", "D">>
Tok3E == <<"-", "%", "3", "E">>
Tok20 == <<"%", "2", "0">>

\* NormalizeKey with %5D replaced before %5D.: the point of %5D. is left
\* in the key
NormalizeKeyShortFirst(key) ==
    LET k1 == Replace(key, Tok5B, <<Sep>>)
        k2 == Replace(k1, Tok5D, <<Sep>>)
        k3 == Replace(k2, Tok5DDot, <<Sep>>)
        k4 == Replace(k3, Tok3E, <<Sep>>)
        k5 == Replace(k4, Tok20, <<" ">>)
    IN  RStrip(k5, Sep)

\* lines 138-146: the delimiter tokens become the separator, %20 a space,
\* and the trailing separators are stripped
NormalizeKey(key) ==
    LET k1 == Replace(key, Tok5B, <<Sep>>)
        k2 == Replace(k1, Tok5DDot, <<Sep>>)
        k3 == Replace(k2, Tok5D, <<Sep>>)
        k4 == Replace(k3, Tok3E, <<Sep>>)
        k5 == Replace(k4, Tok20, <<" ">>)
    IN  RStrip(k5, Sep)

\* AssignLeaf that keeps the value of a key already there
AssignLeafKeepFirst(current_dict, key, value) ==
    IF ~IsDict(current_dict) THEN [ok |-> FALSE, d |-> current_dict]
    ELSE IF Has(current_dict, Join(key)) THEN [ok |-> TRUE, d |-> current_dict]
    ELSE [ok |-> TRUE, d |-> SetItem(current_dict, Join(key), value)]

\* line 160: current_dict[key] = value; on a value that is no dictionary the
\* item assignment raises TypeError
AssignLeaf(current_dict, key, value) ==
    IF IsDict(current_dict)
    THEN [ok |-> TRUE, d |-> SetItem(current_dict, Join(key), value)]
    ELSE [ok |-> FALSE, d |-> current_dict]

\* lines 149-160 on the normalized key.  The result is the dictionary as the
\* in-place updates leave it, and whether the call returned (ok) or raised
\* TypeError: `sub_dict not in current_dict` and the item assignment raise
\* it on a bool, an int or a float, and on a str one of the item assignment
\* and the indexing by a str does.
RECURSIVE Descend(_, _, _)
Descend(current_dict, key, value) ==
    IF ~Contains(key, Sep) THEN AssignLeaf(current_dict, key, value)
    ELSE IF ~IsDict(current_dict) THEN [ok |-> FALSE, d |-> current_dict]
    ELSE LET p == Split1(key, Sep)
             sub_dict == Join(p[1])
             created == IF Has(current_dict, sub_dict) THEN current_dict
                        ELSE SetItem(current_dict, sub_dict, EmptyDict)
             r == Descend(created.map[sub_dict], p[2], value)
         IN  [ok |-> r.ok, d |-> SetItem(created, sub_dict, r.d)]

parse_key(key, current_dict, value) ==
    Descend(current_dict, NormalizeKey(key), value)

(***************************************************************************)
(* parse_trs: one step of the for loop per line.                           *)
(***************************************************************************)
IsHeader(line) == StartsWith(line, <<"[">>) /\ EndsWith(line, <<"]">>)

\* line 184: line[1:-1]
HeaderName(line) == Join(SubSeq(line, 2, Len(line) - 1))

\* OpenSection that keeps a section already there
OpenSectionKeep(out, name) ==
    IF Has(out, name) THEN out ELSE SetItem(out, name, EmptyDict)

\* line 185: output[section] = {}
OpenSection(out, name) == SetItem(out, name, EmptyDict)

\* lines 188-190 on a line that is neither empty nor a header: the
\* dictionary afterwards and the exception raised, if any
KeyValue(out, sec, line) ==
    IF ~Contains(line, "=") THEN [exc |-> "ValueError", out |-> out]
    ELSE IF ~Has(out, sec) THEN [exc |-> "KeyError", out |-> out]
    ELSE LET kv == Split1(line, "=")
             r == parse_key(kv[1], out.map[sec], auto_cast(kv[2]))
         IN  [exc |-> IF r.ok THEN "none" ELSE "TypeError",
              out |-> SetItem(out, sec, r.d)]

\* lines 178-190: the body of the loop on one line
LineStep(st, line) ==
    IF line = <<>> THEN st
    ELSE IF IsHeader(line)
         THEN [output |-> OpenSection(st.output, HeaderName(line)),
               section |-> HeaderName(line), exc |-> "none"]
         ELSE LET r == KeyValue(st.output, st.section, line)
              IN  [output |-> r.out, section |-> st.section, exc |-> r.exc]

\* lines 176-199: the loop over all the lines, stopped by an exception
RECURSIVE parse_trs(_)
parse_trs(lines) ==
    IF lines = <<>>
    THEN [output |-> EmptyDict, section |-> "", exc |-> "none"]
    ELSE LET st == parse_trs(SubSeq(lines, 1, Len(lines) - 1))
         IN  IF st.exc # "none" THEN st
             ELSE LineStep(st, lines[Len(lines)])

Parsing == pc = "parse" /\ exc = "none" /\ lineno < Len(content)
NextLine == content[lineno + 1]

ConvertLocals == <<args, state, memory, step_f, files>>

\* lines 180-181
SkipEmptyLine ==
    /\ Parsing
    /\ NextLine = <<>>
    /\ lineno' = lineno + 1
    /\ UNCHANGED <<content, output, section, pc, exc, ConvertLocals>>

\* lines 183-186
SectionHeader ==
    /\ Parsing
    /\ NextLine # <<>>
    /\ IsHeader(NextLine)
    /\ lineno' = lineno + 1
    /\ section' = HeaderName(NextLine)
    /\ output' = OpenSection(output, HeaderName(NextLine))
    /\ UNCHANGED <<content, pc, exc, ConvertLocals>>

\* lines 188-190
KeyValueLine ==
    /\ Parsing
    /\ NextLine # <<>>
    /\ ~IsHeader(NextLine)
    /\ lineno' = lineno + 1
    /\ LET r == KeyValue(output, section, NextLine)
       IN  output' = r.out /\ exc' = r.exc
    /\ UNCHANGED <<content, section, pc, ConvertLocals>>

\* line 199, and line 237 in convert: state = parse_trs(...)
ParseReturn ==
    /\ pc = "parse"
    /\ exc = "none"
    /\ lineno = Len(content)
    /\ pc' = "parsed"
    /\ state' = output
    /\ UNCHANGED <<content, lineno, output, section, exc, args, memory,
                   step_f, files>>

NextParse == SkipEmptyLine \/ SectionHeader \/ KeyValueLine \/ ParseReturn

(***************************************************************************)
(* convert.                                                                *)
(***************************************************************************)
IsNum(v) == v.kind \in {"bool", "int", "float"}
IsIntLike(v) == v.kind \in {"bool", "int"}

\* the number a bool, an int or a float stands for in arithmetic
NumOf(v) ==
    CASE v.kind = "bool" -> IF v.val THEN <<1, 1>> ELSE <<0, 1>>
      [] v.kind = "int" -> <<v.val, 1>>
      [] v.kind = "float" -> v.val

IntLikeOf(v) == IF v.kind = "bool" THEN (IF v.val THEN 1 ELSE 0) ELSE v.val

\* v[k]: KeyError on a dictionary without k, TypeError on a scalar
GetItem(v, k) ==
    IF ~IsDict(v) THEN [exc |-> "TypeError", v |-> Unbound]
    ELSE IF ~Has(v, k) THEN [exc |-> "KeyError", v |-> Unbound]
    ELSE [exc |-> "none", v |-> v.map[k]]

\* v[k1][k2]
GetItem2(v, k1, k2) ==
    LET a == GetItem(v, k1)
    IN  IF a.exc # "none" THEN a ELSE GetItem(a.v, k2)

\* f'{n}' for an int n
RECURSIVE NatText(_)
NatText(n) ==
    LET d == CASE n % 10 = 0 -> "0" [] n % 10 = 1 -> "1" [] n % 10 = 2 -> "2"
               [] n % 10 = 3 -> "3" [] n % 10 = 4 -> "4" [] n % 10 = 5 -> "5"
               [] n % 10 = 6 -> "6" [] n % 10 = 7 -> "7" [] n % 10 = 8 -> "8"
               [] n % 10 = 9 -> "9"
    IN  IF n < 10 THEN <<d>> ELSE NatText(n \div 10) \o <<d>>

IntText(n) == IF n < 0 THEN <<"-">> \o NatText(-n) ELSE NatText(n)

\* lines 244-247: the value of step_f, or the exception its evaluation raises
StepOf(st) ==
    LET stop == GetItem2(st, "VNAGloble", "m_f64StopFreq")
        start == GetItem2(st, "VNAGloble", "m_f64StartFreq")
        size == GetItem2(st, "Trace", "size")
    IN  IF stop.exc # "none" THEN [exc |-> stop.exc, v |-> Unbound]
        ELSE IF start.exc # "none" THEN [exc |-> start.exc, v |-> Unbound]
        ELSE IF ~(IsNum(stop.v) /\ IsNum(start.v))
             THEN [exc |-> "TypeError", v |-> Unbound]
        ELSE IF size.exc # "none" THEN [exc |-> size.exc, v |-> Unbound]
        ELSE IF ~IsNum(size.v) THEN [exc |-> "TypeError", v |-> Unbound]
        ELSE IF FSub(NumOf(size.v), <<1, 1>>) = <<0, 1>>
             THEN [exc |-> "ZeroDivisionError", v |-> Unbound]
        ELSE [exc |-> "none",
              v |-> PyFloat(FDiv(FSub(NumOf(stop.v), NumOf(start.v)),
                                 FSub(NumOf(size.v), <<1, 1>>)))]

\* lines 256-259 and 273-276: the tuple of index i, or the exception raised
RowOf(st, step, sect, i) ==
    LET start == GetItem2(st, "VNAGloble", "m_f64StartFreq")
        rec == GetItem2(st, sect, Join(IntText(i + 1)))
        ampy == GetItem(rec.v, "ampy")
        ampz == GetItem(rec.v, "ampz")
    IN  IF start.exc # "none" THEN [exc |-> start.exc, row |-> <<>>]
        ELSE IF step = Unbound THEN [exc |-> "NameError", row |-> <<>>]
        ELSE IF ~IsNum(start.v) THEN [exc |-> "TypeError", row |-> <<>>]
        ELSE IF rec.exc # "none" THEN [exc |-> rec.exc, row |-> <<>>]
        ELSE IF ampy.exc # "none" THEN [exc |-> ampy.exc, row |-> <<>>]
        ELSE IF ampz.exc # "none" THEN [exc |-> ampz.exc, row |-> <<>>]
        ELSE [exc |-> "none",
              row |-> <<PyFloat(FAdd(NumOf(start.v),
                                     FMul(<<i, 1>>, NumOf(step)))),
                        ampy.v, ampz.v>>]

\* the list comprehension over range(n), stopped by the first exception
RECURSIVE RowsUpTo(_, _, _, _)
RowsUpTo(st, step, sect, n) ==
    IF n <= 0 THEN [exc |-> "none", rows |-> <<>>]
    ELSE LET before == RowsUpTo(st, step, sect, n - 1)
             r == RowOf(st, step, sect, n - 1)
         IN  IF before.exc # "none" THEN before
             ELSE IF r.exc # "none" THEN [exc |-> r.exc, rows |-> <<>>]
             ELSE [exc |-> "none", rows |-> Append(before.rows, r.row)]

\* lines 255-260 and 272-277: range(state[sect]['size']) and the rows
RowsOf(st, step, sect) ==
    LET size == GetItem2(st, sect, "size")
    IN  IF size.exc # "none" THEN [exc |-> size.exc, rows |-> <<>>]
        ELSE IF ~IsIntLike(size.v) THEN [exc |-> "TypeError", rows |-> <<>>]
        ELSE RowsUpTo(st, step, sect, IntLikeOf(size.v))

HeaderRow == <<"frequency", "real", "imaginary">>

\* lines 250-260 and 267-277: the table left in the file; the header is
\* written before the rows are computed and stays when they raise
TableOf(r) == IF r.exc = "none" THEN <<HeaderRow>> \o r.rows ELSE <<HeaderRow>>

WriteFile(fs, name, text) ==
    [x \in (DOMAIN fs) \cup {name} |-> IF x = name THEN text ELSE fs[x]]

ParserLocals == <<content, lineno, output, section>>

\* lines 239-242
WriteConfig ==
    /\ pc = "parsed" /\ exc = "none"
    /\ args.config
    /\ files' = WriteFile(files, "config", state)
    /\ pc' = "step"
    /\ UNCHANGED <<ParserLocals, exc, args, state, memory, step_f>>

\* line 239, config not selected
SkipConfig ==
    /\ pc = "parsed" /\ exc = "none"
    /\ ~args.config
    /\ pc' = "trace"
    /\ UNCHANGED <<ParserLocals, exc, args, state, memory, step_f, files>>

\* lines 244-247, inside the `if config:` block
ComputeStep ==
    /\ pc = "step" /\ exc = "none"
    /\ LET r == StepOf(state)
       IN  step_f' = r.v /\ exc' = r.exc
    /\ pc' = "trace"
    /\ UNCHANGED <<ParserLocals, args, state, memory, files>>

\* lines 249-260
WriteTrace ==
    /\ pc = "trace" /\ exc = "none"
    /\ args.trace
    /\ LET r == RowsOf(state, step_f, "Trace")
       IN  files' = WriteFile(files, "trace", TableOf(r)) /\ exc' = r.exc
    /\ pc' = "memcheck"
    /\ UNCHANGED <<ParserLocals, args, state, memory, step_f>>

\* line 249, trace not selected
SkipTrace ==
    /\ pc = "trace" /\ exc = "none"
    /\ ~args.trace
    /\ pc' = "memcheck"
    /\ UNCHANGED <<ParserLocals, exc, args, state, memory, step_f, files>>

\* state['MemoryTrace']['size'] == 0
IsZero(v) == IsNum(v) /\ NumOf(v) = <<0, 1>>

\* lines 262-264
CheckMemory ==
    /\ pc = "memcheck" /\ exc = "none"
    /\ LET size == GetItem2(state, "MemoryTrace", "size")
       IN  IF ~memory THEN UNCHANGED <<memory, exc>>
           ELSE IF size.exc # "none" THEN exc' = size.exc /\ UNCHANGED memory
           ELSE IF IsZero(size.v) THEN memory' = FALSE /\ UNCHANGED exc
           ELSE UNCHANGED <<memory, exc>>
    /\ pc' = "memory"
    /\ UNCHANGED <<ParserLocals, args, state, step_f, files>>

\* lines 266-277
WriteMemory ==
    /\ pc = "memory" /\ exc = "none"
    /\ memory
    /\ LET r == RowsOf(state, step_f, "MemoryTrace")
       IN  files' = WriteFile(files, "memory", TableOf(r)) /\ exc' = r.exc
    /\ pc' = "return"
    /\ UNCHANGED <<ParserLocals, args, state, memory, step_f>>

\* line 266, memory not selected or skipped
SkipMemory ==
    /\ pc = "memory" /\ exc = "none"
    /\ ~memory
    /\ pc' = "return"
    /\ UNCHANGED <<ParserLocals, exc, args, state, memory, step_f, files>>

\* line 279
Return ==
    /\ pc = "return" /\ exc = "none"
    /\ pc' = "done"
    /\ UNCHANGED <<ParserLocals, exc, args, state, memory, step_f, files>>

(***************************************************************************)
(* The files read.                                                         *)
(***************************************************************************)
Text_S == <<"[", "S", "]">>
Text_T == <<"[", "T", "]">>
Text_VNAGloble == <<"[", "V", "N", "A", "G", "l", "o", "b", "l", "e", "]">>
Text_Trace == <<"[", "T", "r", "a", "c", "e", "]">>
Text_MemoryTrace ==
    <<"[", "M", "e", "m", "o", "r", "y", "T", "r", "a", "c", "e", "]">>
Text_StartFreq ==
    <<"m", "_", "f", "6", "4", "S", "t", "a", "r", "t", "F", "r", "e", "q", "=">>
Text_StopFreq ==
    <<"m", "_", "f", "6", "4", "S", "t", "o", "p", "F", "r", "e", "q", "=">>
Text_size == <<"s", "i", "z", "e", "=">>
Text_ampy == <<Sep, "a", "m", "p", "y", "=">>
Text_ampz == <<Sep, "a", "m", "p", "z", "=">>

\* keys of at most MaxTok tokens: names, delimiter tokens, a point, the
\* separator itself and an encoded space
KeyTokens == {<<"a">>, <<"b">>, Tok5B, Tok5D, Tok3E, <<".">>, <<Sep>>, Tok20}

Keys == {Concat(ts) : ts \in UNION {[1..n -> KeyTokens] : n \in 0..MaxTok}}

\* a section, an empty line, and one key/value line
KeyFiles == {<<Text_S, <<>>, k \o <<"=", "1">>>> : k \in Keys}

DocKeys == {<<>>, <<"a">>, <<"a">> \o Tok5B \o <<"b">> \o Tok5D,
            <<"a">> \o Tok3E \o <<"b">> \o Tok3E \o <<"c">>}

DocLines ==
    {Text_S, Text_T, <<>>, <<"a">>}
        \cup {k \o <<"=">> \o v : k \in DocKeys, v \in {<<"1">>, <<"2">>}}

\* files of at most MaxLines lines
DocFiles == UNION {[1..n -> DocLines] : n \in 0..MaxLines}

\* the lines of records 1..n of a trace section; `cut` takes the last record
\* out ("record") or its ampz ("ampz")
RECURSIVE Records(_, _)
Records(n, cut) ==
    IF n <= 0 THEN <<>>
    ELSE Records(n - 1, "none")
         \o (IF cut = "record" THEN <<>>
             ELSE <<IntText(n) \o Text_ampy \o IntText(n)>>
                  \o (IF cut = "ampz" THEN <<>>
                      ELSE <<IntText(n) \o Text_ampz \o IntText(-n)>>))

Axes == {<<<<"1", "0", "0", "0", ".", "0">>, <<"2", "0", "0", "0", ".", "0">>>>,
         <<<<"0">>, <<"6">>>>}

TraceSizes == (0..MaxSize) \cup {11}
MemSizes == 0..MaxMem
Defects == {"none", "noheader", "nostop", "norecord", "noampz", "nomemory",
            "nomemrecord"}

\* a trace file: start and stop frequency, n samples, m memory samples
TraceFile(axis, n, m, defect) ==
    (IF defect = "noheader" THEN <<>> ELSE <<Text_VNAGloble>>)
    \o <<Text_StartFreq \o axis[1]>>
    \o (IF defect = "nostop" THEN <<>> ELSE <<Text_StopFreq \o axis[2]>>)
    \o <<Text_Trace, Text_size \o IntText(n)>>
    \o Records(n, CASE defect = "norecord" -> "record"
                    [] defect = "noampz" -> "ampz"
                    [] OTHER -> "none")
    \o (IF defect = "nomemory" THEN <<>>
        ELSE <<<<>>, Text_MemoryTrace, Text_size \o IntText(m)>>
             \o Records(m, IF defect = "nomemrecord" THEN "record" ELSE "none"))

TraceFiles ==
    {TraceFile(axis, n, m, defect) :
        axis \in Axes, n \in TraceSizes, m \in MemSizes, defect \in Defects}

NoFlags == [config |-> FALSE, trace |-> FALSE, memory |-> FALSE]

InitWith(inputs, flags) ==
    /\ content \in inputs
    /\ args \in flags
    /\ lineno = 0
    /\ output = EmptyDict
    /\ section = ""
    /\ pc = "parse"
    /\ exc = "none"
    /\ state = Unbound
    /\ memory = args.memory
    /\ step_f = Unbound
    /\ files = <<>>

\* convert(file_path, config, trace, memory, output) on a trace file
Init == InitWith(TraceFiles, [config : BOOLEAN, trace : BOOLEAN, memory : BOOLEAN])

Next ==
    \/ NextParse
    \/ WriteConfig \/ SkipConfig \/ ComputeStep
    \/ WriteTrace \/ SkipTrace
    \/ CheckMemory
    \/ WriteMemory \/ SkipMemory
    \/ Return

Spec == Init /\ [][Next]_vars

\* parse_trs(content) on a file of key/value lines
InitParse == InitWith(KeyFiles \cup DocFiles, {NoFlags})

SpecParse == InitParse /\ [][NextParse]_vars

(***************************************************************************)
(* Vocabulary of the properties.                                           *)
(***************************************************************************)
IsKeyValue(line) == line # <<>> /\ ~IsHeader(line) /\ Contains(line, "=")
KeyOf(line) == Split1(line, "=")[1]
ValueOf(line) == auto_cast(Split1(line, "=")[2])

\* the field names of a normalized key, outermost first
RECURSIVE PathOf(_)
PathOf(key) ==
    IF ~Contains(key, Sep) THEN <<Join(key)>>
    ELSE <<Join(Split1(key, Sep)[1])>> \o PathOf(Split1(key, Sep)[2])

\* the value at a path of a dictionary, Unbound when there is none
RECURSIVE GetPath(_, _)
GetPath(d, path) ==
    IF path = <<>> THEN d
    ELSE IF ~IsDict(d) \/ ~Has(d, path[1]) THEN Unbound
    ELSE GetPath(d.map[path[1]], Tail(path))

\* line lineno was a key/value line inserted into the empty container of a
\* section just opened
InsertedIntoEmpty ==
    /\ pc = "parse" /\ exc = "none" /\ lineno >= 1
    /\ IsKeyValue(content[lineno])
    /\ \E h \in 1..(lineno - 1) :
          /\ content[h] # <<>> /\ IsHeader(content[h])
          /\ \A j \in (h + 1)..(lineno - 1) : content[j] = <<>>

AB1 == Dict([k \in {"a"} |-> Dict([j \in {"b"} |-> PyInt(1)])])

(***************************************************************************)
(* C4.  Delimiter equivalence.                                             *)
(***************************************************************************)
DelimTokens == {Tok5B, Tok5DDot, Tok5D, Tok3E}

\* a delimiter token occurs in key at position p
IsTokenAt(key, p) == \E t \in DelimTokens : StartsWith(Drop(key, p - 1), t)

\* the token occurring at p, the longest when two match
TokenAt(key, p) ==
    IF StartsWith(Drop(key, p - 1), Tok5DDot) THEN Tok5DDot
    ELSE CHOOSE t \in DelimTokens : StartsWith(Drop(key, p - 1), t)

\* key with the token at p replaced by the token t
ReplaceAt(key, p, t) ==
    SubSeq(key, 1, p - 1) \o t \o Drop(key, p - 1 + Len(TokenAt(key, p)))

\* the text after the token at p begins with a point
PointFollows(key, p) ==
    StartsWith(Drop(key, p - 1 + Len(TokenAt(key, p))), <<".">>)

ExampleKeys ==
    {<<"a">> \o Tok5B \o <<"b">> \o Tok5D,
     <<"a">> \o Tok3E \o <<"b">>,
     <<"a">> \o Tok5DDot \o <<"b">>}

ExamplesAgree ==
    \A k \in ExampleKeys :
        parse_key(k, EmptyDict, PyInt(1)) = [ok |-> TRUE, d |-> AB1]

\* the key of line lineno with its token at p replaced by t, inserted into
\* an empty container, yields the container the program built
ReplacementAgrees(p, t) ==
    parse_key(ReplaceAt(KeyOf(content[lineno]), p, t), EmptyDict,
              ValueOf(content[lineno]))
        = [ok |-> TRUE, d |-> output.map[section]]

\* the positions of the delimiter tokens of the key of line lineno
TokenPositions ==
    {p \in 1..Len(KeyOf(content[lineno])) :
        IsTokenAt(KeyOf(content[lineno]), p)}

\* C4 as stated: the keys a%5Bb%5D, a-%3Eb and a%5D.b with value 1 each yield
\* {a: {b: 1}} from an empty container, and replacing any delimiter token of
\* a key by another one does not change the container the insertion yields.
C4_DelimiterEquivalence ==
    /\ ExamplesAgree
    /\ InsertedIntoEmpty =>
          \A p \in TokenPositions : \A t \in DelimTokens :
              ReplacementAgrees(p, t)

\* C4 amended: the same, for the tokens that are not directly followed by a
\* point (%5D followed by a point is the token %5D. and one level, any other
\* token followed by a point starts a field name with that point).
C4_DelimiterEquivalenceAmended ==
    /\ ExamplesAgree
    /\ InsertedIntoEmpty =>
          \A p \in TokenPositions : \A t \in DelimTokens :
              ~PointFollows(KeyOf(content[lineno]), p) =>
                  ReplacementAgrees(p, t)

\* C4 witness: the key a%5Bb%5D was inserted with value 1 and gave {a: {b: 1}}
C4_Witness ==
    /\ InsertedIntoEmpty
    /\ KeyOf(content[lineno]) = <<"a">> \o Tok5B \o <<"b">> \o Tok5D
    /\ output.map[section] = AB1

(***************************************************************************)
(* C5.  Nesting levels are never removed.                                  *)
(***************************************************************************)
\* every nested sub-container of d is a nested sub-container of e
RECURSIVE NestsKept(_, _)
NestsKept(d, e) ==
    \A k \in DOMAIN d.map :
        IsDict(d.map[k]) =>
            /\ IsDict(e) /\ Has(e, k) /\ IsDict(e.map[k])
            /\ NestsKept(d.map[k], e.map[k])

\* a step that inserted a key/value line into the active section
InsertionStep ==
    /\ pc = "parse" /\ lineno' = lineno + 1
    /\ IsKeyValue(content[lineno + 1])
    /\ Has(output, section)

\* C5 as stated: an insertion into a section's container keeps every nested
\* sub-container nested (no nesting level is replaced by a scalar), and an
\* insertion that fails leaves the container unchanged.
C5_NestingNeverRemoved ==
    [][InsertionStep =>
          /\ NestsKept(output.map[section], output'.map[section])
          /\ (exc' # "none" => output' = output)]_vars

(***************************************************************************)
(* C6.  Last write wins.                                                   *)
(***************************************************************************)
\* lines i < j are key/value lines of the same section with the same
\* normalized key path and different values
SamePathPair(i, j) ==
    /\ i < j
    /\ IsKeyValue(content[i]) /\ IsKeyValue(content[j])
    /\ \A h \in i..j : content[h] = <<>> \/ ~IsHeader(content[h])
    /\ NormalizeKey(KeyOf(content[i])) = NormalizeKey(KeyOf(content[j]))
    /\ ValueOf(content[i]) # ValueOf(content[j])

RemoveAt(s, i) == SubSeq(s, 1, i - 1) \o Drop(s, i)

RECURSIVE NoEmptyName(_)
NoEmptyName(d) ==
    IsDict(d) => \A k \in DOMAIN d.map : k # "" /\ NoEmptyName(d.map[k])

\* C7 as stated: a key that is empty after normalization and stripping is
\* rejected with an error, and no section container ever holds a field whose
\* name is the empty string.
C7_EmptyKeyRejected ==
    /\ \A s \in DOMAIN output.map : NoEmptyName(output.map[s])
    /\ (pc = "parse" /\ lineno >= 1 /\ IsKeyValue(content[lineno])
        /\ NormalizeKey(KeyOf(content[lineno])) = <<>>) => exc # "none"

(***************************************************************************)
(* C10.  Sections.                                                         *)
(***************************************************************************)
HeaderAt(i) == content[i] # <<>> /\ IsHeader(content[i])

\* the insertions of the key/value lines among `lines` into d, in order
RECURSIVE InsertAll(_, _)
InsertAll(d, lines) ==
    IF lines = <<>> THEN d
    ELSE IF ~IsKeyValue(lines[1]) THEN InsertAll(d, Tail(lines))
    ELSE InsertAll(parse_key(KeyOf(lines[1]), d, ValueOf(lines[1])).d,
                   Tail(lines))

\* the last header of name s among the lines parsed
LastHeader(s) ==
    CHOOSE h \in 1..lineno :
        /\ HeaderAt(h) /\ HeaderName(content[h]) = s
        /\ \A g \in (h + 1)..lineno :
              ~(HeaderAt(g) /\ HeaderName(content[g]) = s)

\* the last line of the run of lines that header h opens
RunEnd(h) ==
    CHOOSE e \in h..lineno :
        /\ \A g \in (h + 1)..e : ~HeaderAt(g)
        /\ (e < lineno => HeaderAt(e + 1))

\* C10: a line that is neither empty nor a header and comes before any header
\* raises an error; and while no error is raised the top-level entries of the
\* State are exactly the sections whose header was seen, each a mapping that
\* holds exactly the key/value lines that followed its most recent header.
C10_SectionHandling ==
    pc = "parse" =>
      /\ (/\ lineno >= 1
          /\ content[lineno] # <<>> /\ ~IsHeader(content[lineno])
          /\ \A h \in 1..lineno : ~HeaderAt(h)) => exc # "none"
      /\ exc = "none" =>
          /\ DOMAIN output.map
                = {HeaderName(content[h]) : h \in {g \in 1..lineno : HeaderAt(g)}}
          /\ \A s \in DOMAIN output.map :
                /\ IsDict(output.map[s])
                /\ output.map[s]
                     = InsertAll(EmptyDict,
                                 SubSeq(content, LastHeader(s) + 1,
                                        RunEnd(LastHeader(s))))

\* C10 witness: [S], a key/value line, [S] again: the section is empty again
C10_Witness ==
    /\ pc = "parse" /\ exc = "none" /\ lineno = 3
    /\ content[1] = Text_S /\ IsKeyValue(content[2]) /\ content[3] = Text_S
    /\ output.map["S"] = EmptyDict

(***************************************************************************)
(* Vocabulary of the properties of convert.                                *)
(***************************************************************************)
Fetched(r) == r.exc = "none"

\* start and stop are there and are numbers
AxisPresent(st) ==
    /\ Fetched(GetItem2(st, "VNAGloble", "m_f64StartFreq"))
    /\ IsNum(GetItem2(st, "VNAGloble", "m_f64StartFreq").v)
    /\ Fetched(GetItem2(st, "VNAGloble", "m_f64StopFreq"))
    /\ IsNum(GetItem2(st, "VNAGloble", "m_f64StopFreq").v)

\* the section has an integer size of at least least
SizeAtLeast(st, sect, least) ==
    /\ Fetched(GetItem2(st, sect, "size"))
    /\ GetItem2(st, sect, "size").v.kind = "int"
    /\ GetItem2(st, sect, "size").v.val >= least

SizeIn(st, sect) == GetItem2(st, sect, "size").v.val

RecordComplete(st, sect, i) ==
    LET rec == GetItem2(st, sect, Join(IntText(i)))
    IN  /\ Fetched(rec)
        /\ Fetched(GetItem(rec.v, "ampy")) /\ Fetched(GetItem(rec.v, "ampz"))

AllRecords(st, sect) ==
    \A i \in 1..SizeIn(st, sect) : RecordComplete(st, sect, i)

\* the parsed state of a well-formed file: the axis, a Trace section of at
\* least two samples and a MemoryTrace section, with all their records
WellFormed(st) ==
    /\ st # Unbound
    /\ AxisPresent(st)
    /\ SizeAtLeast(st, "Trace", 2) /\ AllRecords(st, "Trace")
    /\ SizeAtLeast(st, "MemoryTrace", 0) /\ AllRecords(st, "MemoryTrace")

\* start + i * (stop - start) / (n - 1) with n the size of the section itself
FrequencyAt(st, sect, i) ==
    LET start == NumOf(GetItem2(st, "VNAGloble", "m_f64StartFreq").v)
        stop == NumOf(GetItem2(st, "VNAGloble", "m_f64StopFreq").v)
    IN  FAdd(start, FMul(<<i, 1>>,
                         FDiv(FSub(stop, start), <<SizeIn(st, sect) - 1, 1>>)))

\* the header and one row per record of the section, in index order
TableFor(st, sect) ==
    <<HeaderRow>>
    \o [i \in 1..SizeIn(st, sect) |->
            <<PyFloat(FrequencyAt(st, sect, i - 1)),
              GetItem2(st, sect, Join(IntText(i))).v.map["ampy"],
              GetItem2(st, sect, Join(IntText(i))).v.map["ampz"]>>]

MemoryEmpty(st) ==
    /\ Fetched(GetItem2(st, "MemoryTrace", "size"))
    /\ IsZero(GetItem2(st, "MemoryTrace", "size").v)

\* the artifacts the flags select
Selected ==
    (IF args.config THEN {"config"} ELSE {})
    \cup (IF args.trace THEN {"trace"} ELSE {})
    \cup (IF args.memory /\ ~MemoryEmpty(state) THEN {"memory"} ELSE {})

\* the step of lines 249-260 has just been taken
TraceStepTaken == pc = "memcheck"

(***************************************************************************)
(* C1.                                                                     *)
(***************************************************************************)
\* C1 as stated: on a well-formed parsed state convert raises no error for any
\* combination of the flags and ends having written exactly the selected
\* artifacts, the trace table among them whenever trace is selected.
C1_ArtifactsIndependent ==
    WellFormed(state) =>
        /\ exc = "none"
        /\ pc = "done" =>
              /\ DOMAIN files = Selected
              /\ args.trace => files["trace"] = TableFor(state, "Trace")

(***************************************************************************)
(* C2.                                                                     *)
(***************************************************************************)
\* C2 as stated: the memory-trace table of n >= 2 samples has in row i the
\* frequency start + i * (stop - start) / (n - 1), n being the size of the
\* MemoryTrace section, whatever the size of the Trace section.
C2_MemoryStepFromMemorySize ==
    (/\ WellFormed(state) /\ SizeAtLeast(state, "MemoryTrace", 2)
     /\ pc = "done" /\ "memory" \in DOMAIN files) =>
        files["memory"] = TableFor(state, "MemoryTrace")

(***************************************************************************)
(* C3.                                                                     *)
(***************************************************************************)
\* C3 as stated: when the conversion of a file ends in an error, none of its
\* artifacts has been written.
C3_AllOrNothing == exc # "none" => DOMAIN files = {}

(***************************************************************************)
(* C8.                                                                     *)
(***************************************************************************)
\* C8 as stated: for a state whose Trace section has size n >= 2, once the
\* trace output has run, the trace table is the header and the n rows
\* (start + i * step, ampy, ampz) in index order when all records are there,
\* and an error is raised when a record, an ampy or an ampz is missing.
C8_TraceRows ==
    (/\ args.trace /\ TraceStepTaken
     /\ AxisPresent(state) /\ SizeAtLeast(state, "Trace", 2)) =>
        IF AllRecords(state, "Trace")
        THEN /\ exc = "none"
             /\ "trace" \in DOMAIN files
             /\ files["trace"] = TableFor(state, "Trace")
        ELSE exc # "none"

(***************************************************************************)
(* C9.                                                                     *)
(***************************************************************************)
\* C9 as stated: with memory selected and a MemoryTrace section of size 0,
\* for every combination of config and trace and every Trace section of at
\* least two samples, convert raises no error, writes no memory table and
\* writes the other selected artifacts.
C9_SkipOnEmpty ==
    (/\ args.memory /\ WellFormed(state) /\ MemoryEmpty(state)) =>
        /\ exc = "none"
        /\ "memory" \notin DOMAIN files
        /\ pc = "done" =>
              /\ DOMAIN files = Selected
              /\ args.trace => files["trace"] = TableFor(state, "Trace")
====
